---- MODULE Spec2Model ----
(***************************************************************************)
(* A model of the entity-component-system runtime of pyecs.py and ecs.py:  *)
(* the World (entities, component store, archetype table, change and spawn *)
(* ticks), its query evaluator, the double-buffered EventBuffer and the    *)
(* sequential Schedule.  The two source files are two variants of the same *)
(* classes; the variable impl says which one a behaviour runs.             *)
(***************************************************************************)
EXTENDS Integers, Sequences, FiniteSets, TLC

\* ------------------------------------------------------------------ bounds
\* Entity ids 0 .. MaxEntities-1 are issued; spawn is disabled afterwards.
MaxEntities == 2
\* Schedule.run is disabled once world.tick has reached MaxTick.
MaxTick == 2
\* Event objects 0 .. MaxEvents-1 are created; writes are disabled afterwards.
MaxEvents == 3
\* A schedule holds at most MaxSystems systems.
MaxSystems == 2
\* EventBuffer.update is called at most MaxUpdates times by a host that
\* drives the buffer itself.
MaxUpdates == 3
\* Schedule.run of a schedule with systems is started at most MaxRuns times.
MaxRuns == 3
\* At most MaxCalls calls that change the world, or of which the history
\* keeps a record, are made on one world.
MaxCalls == 4
\* At most MaxObservers observers are registered.
MaxObservers == 3
\* At most MaxSetup of them are registered by a host that sets its
\* observers up before it creates events.
MaxSetup == 1

\* Component classes of the application (test.py: Position, Velocity, ...).
Types == {"Position", "Velocity"}
\* Payloads that tell two component objects of one class apart.
Values == {1, 2}
\* A component object: its class and its payload.  Position objects come
\* with either payload, Velocity objects with the first only.
Components ==
    {c \in [type : Types, value : Values] : c.type = "Position" \/ c.value = 1}
\* The argument lists spawn is called with: no component, one, two of
\* different classes, or two of the same class (the later one is kept).
SpawnArgs ==
    {<<>>} \cup {<<c>> : c \in Components}
           \cup {p \in Components \X Components :
                     /\ p[1].type = "Position"
                     /\ p[2].type = "Velocity" \/ p[2].value # p[1].value}
\* Entity ids a caller may pass: those issued so far, live or despawned,
\* and those not issued yet.
EntityIds == 0 .. (MaxEntities - 1)
\* The two variants of the classes.
Impls == {"pyecs", "ecs"}
\* Event classes: pyecs.py declares EntityEvent as a subclass of Event.
EventTypes == {"Event", "EntityEvent"}
\* class EntityEvent(Event): the pairs <<class, proper superclass>>.
Subclass == {<<"EntityEvent", "Event">>}
\* The callables registered as observer callbacks.
CallbackIds == {"cbA", "cbB"}
\* The callables registered as systems.
SystemIds == {"sysA", "sysB"}
\* Resource classes of the application (test_event.py: GameState;
\* test_pygame.py stores the EventBuffer as a resource).
ResourceTypes == {"GameState", "EventBuffer"}
\* A resource object: its class and its payload.
Resources ==
    {r \in [type : ResourceTypes, value : Values] :
         r.type = "GameState" \/ r.value = 1}
\* The argument lists Schedule.add is called with.
AddArgs == {<<>>} \cup {<<f>> : f \in SystemIds} \cup (SystemIds \X SystemIds)

VARIABLES
    impl,               \* "pyecs": src/pyecs.py, "ecs": src/ecs.py
    archetypes,         \* World.archetypes: key -> Archetype
    entity_archetype,   \* World.entity_archetype: id -> key of its Archetype
    entity_components,  \* World.entity_components: id -> (class -> component)
    next_id,            \* World._next_id
    tick,               \* World.tick
    spawn_ticks,        \* World.spawn_ticks (ecs.py only)
    change_ticks,       \* World.change_ticks: id -> (class -> tick)
    resources,          \* World.resources: class -> resource
    observers,          \* World.observers (ecs.py only): list of Observer
    current,            \* EventBuffer.current: class -> list of events
    next,               \* EventBuffer.next: class -> list of events
    systems,            \* Schedule.systems
    pc,                 \* Schedule.run: 0 when no run is in progress, else
                        \* the position in self.systems of the system to
                        \* invoke next (Len + 1: the loop has finished)
    calls,              \* history: what the run in progress (or the last
                        \* one) has invoked so far, in order
    runs,               \* history: how many runs have started
    updates,            \* history: how many times update has been called
    written,            \* history: the events created so far, event id + 1
                        \* -> its class, the values of updates and runs when
                        \* it was written, and who wrote it
    ncalls,             \* history: how many calls have changed the world
    registered,         \* history: the systems passed to add, in call order
    last_write,         \* history: id -> (class -> the tick of the latest
                        \* spawn, add_component or set_component that
                        \* stored a component of the class on the entity)
    last_add,           \* history, kept by AddComponentNow only: the pairs
                        \* <<id, class>> such that add_component has stored
                        \* a component of the class on the live entity
                        \* during the current tick; kept when the component
                        \* is removed
    res_log,            \* history: the resource calls that returned, in
                        \* call order
    dispatched          \* history: the event of the latest trigger, the
                        \* callbacks it invoked, in order, and how many
                        \* observers were registered at the time

worldVars == <<impl, archetypes, entity_archetype, entity_components,
               next_id, tick, spawn_ticks, change_ticks, resources, observers>>
bufVars == <<current, next>>
schedVars == <<systems, pc, calls, runs>>
histVars == <<updates, written, registered, ncalls>>
writeVars == <<last_write, last_add>>
callVars == <<res_log, dispatched>>
vars == <<worldVars, bufVars, schedVars, histVars, writeVars, callVars>>

\* ------------------------------------------------- Python dicts and lists
\* {} : the empty dict.
EmptyDict == <<>>
\* d[k] = v
Put(d, k, v) == [x \in (DOMAIN d) \cup {k} |-> IF x = k THEN v ELSE d[x]]
\* d.pop(k, None): the dict without k.
Pop(d, k) == [x \in (DOMAIN d) \ {k} |-> d[x]]
\* x in list
Contains(s, x) == \E i \in 1 .. Len(s) : s[i] = x
\* list.remove(x): the list without its first x (the caller checks Contains).
ListRemove(s, x) ==
    LET i == CHOOSE k \in 1 .. Len(s) :
                 s[k] = x /\ \A j \in 1 .. (k - 1) : s[j] # x
    IN  SubSeq(s, 1, i - 1) \o SubSeq(s, i + 1, Len(s))
\* How often x occurs in a list.
Count(s, x) == Cardinality({i \in 1 .. Len(s) : s[i] = x})

\* What a call yields: the world it leaves, the value it returns, and the
\* exception it raises ("none" when it returns).
NoRet == "None"
\* No trigger has been made yet.
NoEvent == [type |-> NoRet, id |-> -1]
NoDispatch == [event |-> NoEvent, callbacks |-> <<>>, nobs |-> 0]
Return(w, r) == [w |-> w, ret |-> r, err |-> "none"]
Raise(w, e) == [w |-> w, ret |-> NoRet, err |-> e]

\* frozenset(type(c) for c in components)
TypeSet(components) == {components[i].type : i \in 1 .. Len(components)}
\* {type(c): c for c in components}: a later component of a class wins.
LastOfType(components, t) ==
    components[CHOOSE i \in 1 .. Len(components) :
                   /\ components[i].type = t
                   /\ \A j \in (i + 1) .. Len(components) : components[j].type # t]
ComponentDict(components) ==
    [t \in TypeSet(components) |-> LastOfType(components, t)]

\* ------------------------------------------------------- archetype table
\* self.archetypes is a dict from a frozenset of classes to the Archetype
\* stored under it.  The order in which the dict was filled is left out:
\* a loop over the dict visits its keys in the order of KeyOrder.
KeyOrder ==
    CHOOSE s \in [1 .. Cardinality(SUBSET Types) -> SUBSET Types] :
        \A i, j \in DOMAIN s : i # j => s[i] # s[j]
\* key in self.archetypes
HasArchetype(archs, key) == key \in DOMAIN archs
\* self.archetypes[key].entities
Members(archs, key) == archs[key].entities
\* "if key not in self.archetypes: self.archetypes[key] = Archetype(key, [e])
\*  else: self.archetypes[key].entities.append(e)"
ArchInsert(archs, key, e) ==
    IF HasArchetype(archs, key)
    THEN [archs EXCEPT ![key].entities = Append(@, e)]
    ELSE Put(archs, key, [components |-> key, entities |-> <<e>>])
\* A remove that deletes the record when its member list becomes empty.
ArchRemove_drops_empty_record(archs, key, e) ==
    IF ListRemove(archs[key].entities, e) = <<>> THEN Pop(archs, key)
    ELSE [archs EXCEPT ![key].entities = ListRemove(@, e)]

\* A remove that leaves the entity in the old list.
ArchRemove_keeps_member(archs, key, e) == archs

\* old_archetype.entities.remove(entity)
ArchRemove(archs, key, e) ==
    [archs EXCEPT ![key].entities = ListRemove(@, e)]

\* The World object as one value.
World ==
    [impl |-> impl, archetypes |-> archetypes,
     entity_archetype |-> entity_archetype,
     entity_components |-> entity_components, next_id |-> next_id,
     tick |-> tick, spawn_ticks |-> spawn_ticks, change_ticks |-> change_ticks,
     resources |-> resources, observers |-> observers]

\* World(): every table empty, _next_id = 0, tick = 0.
NewWorld(i) ==
    [impl |-> i, archetypes |-> EmptyDict, entity_archetype |-> EmptyDict,
     entity_components |-> EmptyDict, next_id |-> 0, tick |-> 0,
     spawn_ticks |-> EmptyDict, change_ticks |-> EmptyDict,
     resources |-> EmptyDict, observers |-> <<>>]

\* ----------------------------------------------------------------- spawn
\* A spawn that issues the lowest id that is not live.
spawn_reusing_freed_id(w, components) ==
    LET e_id == CHOOSE i \in 0 .. w.next_id :
                    /\ i \notin DOMAIN w.entity_archetype
                    /\ \A j \in 0 .. (i - 1) : j \in DOMAIN w.entity_archetype
        component_type == TypeSet(components)
    IN  Return(
          [w EXCEPT
             !.next_id = IF e_id = w.next_id THEN e_id + 1 ELSE @,
             !.spawn_ticks = IF w.impl = "ecs" THEN Put(@, e_id, w.tick) ELSE @,
             !.change_ticks = Put(@, e_id, [t \in component_type |-> w.tick]),
             !.entity_components = Put(@, e_id, ComponentDict(components)),
             !.archetypes = ArchInsert(@, component_type, e_id),
             !.entity_archetype = Put(@, e_id, component_type)],
          e_id)

\* World.spawn(*components); ecs.py also records the spawn tick.
spawn(w, components) ==
    LET e_id == w.next_id
        component_type == TypeSet(components)
    IN  Return(
          [w EXCEPT
             !.next_id = e_id + 1,
             !.spawn_ticks = IF w.impl = "ecs" THEN Put(@, e_id, w.tick) ELSE @,
             !.change_ticks = Put(@, e_id, [t \in component_type |-> w.tick]),
             !.entity_components = Put(@, e_id, ComponentDict(components)),
             !.archetypes = ArchInsert(@, component_type, e_id),
             !.entity_archetype = Put(@, e_id, component_type)],
          e_id)

\* --------------------------------------------------------------- despawn
\* A despawn that forgets to drop the entity's change ticks.
despawn_keeps_change_ticks(w, entity) ==
    IF entity \notin DOMAIN w.entity_archetype THEN Return(w, NoRet)
    ELSE Return(
          [w EXCEPT
             !.archetypes = ArchRemove(@, w.entity_archetype[entity], entity),
             !.entity_archetype = Pop(@, entity),
             !.entity_components = Pop(@, entity),
             !.spawn_ticks = Pop(@, entity)],
          NoRet)

\* A despawn that raises for an id that is not live.
despawn_strict(w, entity) ==
    IF entity \notin DOMAIN w.entity_archetype THEN Raise(w, "KeyError")
    ELSE Return(
          [w EXCEPT
             !.archetypes = ArchRemove(@, w.entity_archetype[entity], entity),
             !.entity_archetype = Pop(@, entity),
             !.entity_components = Pop(@, entity),
             !.spawn_ticks = Pop(@, entity),
             !.change_ticks = Pop(@, entity)],
          NoRet)

\* World.despawn(entity): a no-op for an id that is not live.
despawn(w, entity) ==
    IF entity \notin DOMAIN w.entity_archetype THEN Return(w, NoRet)
    ELSE LET key == w.entity_archetype[entity] IN
    IF ~Contains(Members(w.archetypes, key), entity) THEN Raise(w, "ValueError")
    ELSE Return(
          [w EXCEPT
             !.archetypes = ArchRemove(@, key, entity),
             !.entity_archetype = Pop(@, entity),
             !.entity_components = Pop(@, entity),
             !.spawn_ticks = Pop(@, entity),
             !.change_ticks = Pop(@, entity)],
          NoRet)

\* ------------------------------------------------------------- migration
\* The tail shared by add_component and remove_component: leave the old
\* archetype's member list, join (or create) the new one, remap the entity.
\* list.remove raises ValueError when the entity is not in the old list.
Migrate(w, entity, new_component_type) ==
    LET old == w.entity_archetype[entity] IN
    IF ~Contains(Members(w.archetypes, old), entity) THEN Raise(w, "ValueError")
    ELSE Return(
          [w EXCEPT
             !.archetypes =
                 ArchInsert(ArchRemove(@, old, entity), new_component_type, entity),
             !.entity_archetype = Put(@, entity, new_component_type)],
          NoRet)

\* --------------------------------------------------------- add_component
\* An add that stores the component and leaves the entity in its archetype.
AddBody_without_migration(w, entity, component) ==
    Return([w EXCEPT
              !.change_ticks[entity] = Put(@, component.type, w.tick),
              !.entity_components[entity] = Put(@, component.type, component)],
           NoRet)

\* An add that leaves an entity alone when it already holds the class.
AddBody_skips_held_class(w, entity, component) ==
    IF component.type \in DOMAIN w.entity_components[entity]
    THEN Return(w, NoRet)
    ELSE Return(
          [w EXCEPT
             !.change_ticks[entity] = Put(@, component.type, w.tick),
             !.entity_components[entity] = Put(@, component.type, component),
             !.archetypes =
                 ArchInsert(ArchRemove(@, w.entity_archetype[entity], entity),
                            w.entity_archetype[entity] \cup {component.type},
                            entity),
             !.entity_archetype =
                 Put(@, entity, w.entity_archetype[entity] \cup {component.type})],
          NoRet)

\* The body after the entity lookup, the same in both files: stamp the
\* change tick, store the component, migrate to old key | {class}.
AddBody(w, entity, component) ==
    LET comp_type == component.type
        w1 == [w EXCEPT
                 !.change_ticks[entity] = Put(@, comp_type, w.tick),
                 !.entity_components[entity] = Put(@, comp_type, component)]
    IN  Migrate(w1, entity, w.entity_archetype[entity] \cup {comp_type})

\* pyecs.World.add_component: ValueError for an unknown entity.
pyecs_add_component(w, entity, component) ==
    IF entity \notin DOMAIN w.entity_components THEN Raise(w, "ValueError")
    ELSE AddBody(w, entity, component)

\* ecs.World.add_component: self.entity_components[entity] raises KeyError.
ecs_add_component(w, entity, component) ==
    IF entity \notin DOMAIN w.entity_components THEN Raise(w, "KeyError")
    ELSE AddBody(w, entity, component)

add_component(w, entity, component) ==
    IF w.impl = "pyecs" THEN pyecs_add_component(w, entity, component)
    ELSE ecs_add_component(w, entity, component)

\* --------------------------------------------------------- set_component
\* A set_component that stores the value whether or not the class is held.
set_component_upsert(w, entity, comp_type, new_value) ==
    IF entity \notin DOMAIN w.entity_components THEN Raise(w, "KeyError")
    ELSE Return(
          [w EXCEPT
             !.entity_components[entity] = Put(@, comp_type, new_value),
             !.change_ticks[entity] = Put(@, comp_type, w.tick)],
          NoRet)

\* ecs.World.set_component (pyecs.py has no such method).
set_component(w, entity, comp_type, new_value) ==
    IF entity \notin DOMAIN w.entity_components THEN Raise(w, "KeyError")
    ELSE IF comp_type \notin DOMAIN w.entity_components[entity]
    THEN Raise(w, "KeyError")
    ELSE Return(
          [w EXCEPT
             !.entity_components[entity] = Put(@, comp_type, new_value),
             !.change_ticks[entity] = Put(@, comp_type, w.tick)],
          w.entity_components[entity][comp_type])

\* ------------------------------------------------------ remove_component
\* A remove that pops the component and leaves the entity in its archetype.
RemoveBody_without_migration(w, entity, component_type) ==
    Return([w EXCEPT !.entity_components[entity] = Pop(@, component_type)],
           NoRet)

\* The part both files share: pop the component, migrate to old key \ {class}.
RemoveBody(w, entity, component_type) ==
    LET w1 == [w EXCEPT !.entity_components[entity] = Pop(@, component_type)]
    IN  Migrate(w1, entity, w.entity_archetype[entity] \ {component_type})

\* A remove that keeps the change tick of the removed class.
pyecs_remove_component_keeps_change_tick(w, entity, component_type) ==
    IF entity \notin DOMAIN w.entity_components THEN Raise(w, "KeyError")
    ELSE IF component_type \notin DOMAIN w.entity_components[entity]
    THEN Raise(w, "KeyError")
    ELSE Return(RemoveBody(w, entity, component_type).w,
                w.entity_components[entity][component_type])

\* A remove that returns None for what is not there.
pyecs_remove_component_lenient(w, entity, component_type) ==
    IF entity \notin DOMAIN w.entity_components THEN Return(w, NoRet)
    ELSE IF component_type \notin DOMAIN w.entity_components[entity]
    THEN Return(w, NoRet)
    ELSE Return(
          [RemoveBody(w, entity, component_type).w
              EXCEPT !.change_ticks[entity] = Pop(@, component_type)],
          w.entity_components[entity][component_type])

\* pyecs.World.remove_component: drops the change tick of (entity, class).
pyecs_remove_component(w, entity, component_type) ==
    IF entity \notin DOMAIN w.entity_components THEN Raise(w, "KeyError")
    ELSE IF component_type \notin DOMAIN w.entity_components[entity]
    THEN Raise(w, "KeyError")
    ELSE LET m == RemoveBody(w, entity, component_type) IN
         IF m.err # "none" THEN m
         ELSE Return(
                [m.w EXCEPT !.change_ticks[entity] = Pop(@, component_type)],
                w.entity_components[entity][component_type])

\* ecs.World.remove_component: "for entity in self.change_ticks" drops the
\* change tick of the class on every entity.
ecs_remove_component(w, entity, component_type) ==
    IF entity \notin DOMAIN w.entity_components THEN Raise(w, "KeyError")
    ELSE IF component_type \notin DOMAIN w.entity_components[entity]
    THEN Raise(w, "KeyError")
    ELSE LET m == RemoveBody(w, entity, component_type) IN
         IF m.err # "none" THEN m
         ELSE Return(
                [m.w EXCEPT !.change_ticks =
                    [e \in DOMAIN @ |-> Pop(@[e], component_type)]],
                w.entity_components[entity][component_type])

remove_component(w, entity, component_type) ==
    IF w.impl = "pyecs" THEN pyecs_remove_component(w, entity, component_type)
    ELSE ecs_remove_component(w, entity, component_type)

\* -------------------------------------------------------------- resources
\* An insert that keeps the resource already stored under the class.
insert_resource_keeps_first(w, resource) ==
    IF resource.type \in DOMAIN w.resources THEN Return(w, resource)
    ELSE Return([w EXCEPT !.resources = Put(@, resource.type, resource)],
                resource)

\* World.insert_resource: self.resources[type(resource)] = resource
insert_resource(w, resource) ==
    Return([w EXCEPT !.resources = Put(@, resource.type, resource)], resource)

\* World.get_resource: self.resources[t], KeyError when absent.
get_resource(w, t) ==
    IF t \notin DOMAIN w.resources THEN Raise(w, "KeyError")
    ELSE Return(w, w.resources[t])

\* World.remove_resource: self.resources.pop(t), KeyError when absent.
remove_resource(w, t) ==
    IF t \notin DOMAIN w.resources THEN Raise(w, "KeyError")
    ELSE Return([w EXCEPT !.resources = Pop(@, t)], w.resources[t])

\* ---------------------------------------------------------------- readers
\* World.get_component: KeyError for an unknown entity or an absent class.
get_component(w, entity, component_type) ==
    IF entity \notin DOMAIN w.entity_components THEN Raise(w, "KeyError")
    ELSE IF component_type \notin DOMAIN w.entity_components[entity]
    THEN Raise(w, "KeyError")
    ELSE Return(w, w.entity_components[entity][component_type])

\* World.has_component
has_component(w, entity, component_type) ==
    IF entity \notin DOMAIN w.entity_components THEN FALSE
    ELSE component_type \in DOMAIN w.entity_components[entity]

\* World.get_entities: list(self.entity_archetype.keys()), as a set.
get_entities(w) == DOMAIN w.entity_archetype

\* ------------------------------------------------------------------ query
\* self.change_ticks.get(eid, {}).get(comp_type, -1)
ChangeTick(w, eid, comp_type) ==
    IF eid \in DOMAIN w.change_ticks /\ comp_type \in DOMAIN w.change_ticks[eid]
    THEN w.change_ticks[eid][comp_type]
    ELSE -1

\* A changed filter that looks one tick further back.
pyecs_changed_members_two_ticks(w, members, changed_set) ==
    SelectSeq(members,
              LAMBDA eid : \A comp_type \in changed_set :
                               ChangeTick(w, eid, comp_type) >= w.tick - 2)

\* A changed filter that accepts the previous tick only.
pyecs_changed_members_last_tick_only(w, members, changed_set) ==
    SelectSeq(members,
              LAMBDA eid : \A comp_type \in changed_set :
                               ChangeTick(w, eid, comp_type) = w.tick - 1)

\* The members of one archetype that pass pyecs.py's changed filter.
pyecs_changed_members(w, members, changed_set) ==
    SelectSeq(members,
              LAMBDA eid : \A comp_type \in changed_set :
                               ChangeTick(w, eid, comp_type) >= w.tick - 1)

\* pyecs.World.query: the loop over self.archetypes from the i-th key on.
RECURSIVE pyecs_query_from(_, _, _, _, _)
pyecs_query_from(w, i, with_set, without_set, changed_set) ==
    IF i > Len(KeyOrder) THEN <<>>
    ELSE LET archetype_key == KeyOrder[i]
             rest == pyecs_query_from(w, i + 1, with_set, without_set, changed_set)
         IN  IF archetype_key \notin DOMAIN w.archetypes THEN rest
             ELSE IF ~(with_set \subseteq archetype_key) THEN rest
             ELSE IF archetype_key \cap without_set # {} THEN rest
             ELSE IF changed_set # {}
             THEN pyecs_changed_members(w, w.archetypes[archetype_key].entities,
                                        changed_set) \o rest
             ELSE w.archetypes[archetype_key].entities \o rest

\* A query that passes over the entities that hold no component.
pyecs_query_skipping_empty_key(w, with_set, without_set, changed_set) ==
    SelectSeq(pyecs_query_from(w, 1, with_set, without_set, changed_set),
              LAMBDA eid : w.entity_archetype[eid] # {})

\* A query that drops the without filter.
pyecs_query_ignoring_without(w, with_set, without_set, changed_set) ==
    pyecs_query_from(w, 1, with_set, {}, changed_set)

pyecs_query(w, with_set, without_set, changed_set) ==
    pyecs_query_from(w, 1, with_set, without_set, changed_set)

\* A spawned filter that keeps every member.
ecs_spawned_members_keeps_all(w, members) == members

\* The members of one archetype that ecs.py's spawned filter keeps.
ecs_spawned_members(w, members) ==
    SelectSeq(members,
              LAMBDA eid : eid \in DOMAIN w.spawn_ticks
                           /\ w.spawn_ticks[eid] = w.tick)

\* ecs.World.query: its changed block only "continue"s its own inner loop,
\* so it filters nothing; spawned keeps the entities spawned this tick.
RECURSIVE ecs_query_from(_, _, _, _, _, _)
ecs_query_from(w, i, with_set, without_set, changed_set, spawned) ==
    IF i > Len(KeyOrder) THEN <<>>
    ELSE LET archetype_key == KeyOrder[i]
             rest == ecs_query_from(w, i + 1, with_set, without_set,
                                    changed_set, spawned)
         IN  IF archetype_key \notin DOMAIN w.archetypes THEN rest
             ELSE IF ~(with_set \subseteq archetype_key) THEN rest
             ELSE IF archetype_key \cap without_set # {} THEN rest
             ELSE IF spawned
             THEN ecs_spawned_members(w, w.archetypes[archetype_key].entities)
                  \o rest
             ELSE w.archetypes[archetype_key].entities \o rest

ecs_query(w, with_set, without_set, changed_set, spawned) ==
    ecs_query_from(w, 1, with_set, without_set, changed_set, spawned)

\* World.query of the variant in use (pyecs.py has no spawned argument).
query(w, with_set, without_set, changed_set, spawned) ==
    IF w.impl = "pyecs" THEN pyecs_query(w, with_set, without_set, changed_set)
    ELSE ecs_query(w, with_set, without_set, changed_set, spawned)

\* A query that stores the default tick -1 for every class of the changed
\* filter an entity has no tick for (setdefault in place of get).
query_call_storing_defaults(w, with_set, without_set, changed_set, spawned) ==
    Return([w EXCEPT !.change_ticks =
               [e \in DOMAIN @ |->
                   [t \in changed_set \cup DOMAIN @[e] |->
                       IF t \in DOMAIN @[e] THEN @[e][t] ELSE -1]]],
           query(w, with_set, without_set, changed_set, spawned))

\* World.query as a call: the loop reads self.archetypes, self.change_ticks
\* (with dict.get) and self.spawn_ticks, appends to a local list and assigns
\* to no field of self.
query_call(w, with_set, without_set, changed_set, spawned) ==
    Return(w, query(w, with_set, without_set, changed_set, spawned))

\* ---------------------------------------------------------------- actions
\* The variables take the fields of the world a call leaves.
SetWorld(w) ==
    /\ impl' = w.impl
    /\ archetypes' = w.archetypes
    /\ entity_archetype' = w.entity_archetype
    /\ entity_components' = w.entity_components
    /\ next_id' = w.next_id
    /\ tick' = w.tick
    /\ spawn_ticks' = w.spawn_ticks
    /\ change_ticks' = w.change_ticks
    /\ resources' = w.resources
    /\ observers' = w.observers

\* A call on the world that leaves world w: it counts when it changes the
\* world, and MaxCalls such calls are made at most.
Call(w) ==
    /\ w # World => ncalls < MaxCalls
    /\ SetWorld(w)
    /\ ncalls' = IF w # World THEN ncalls + 1 ELSE ncalls

\* A call with outcome r of which the history keeps a record: it is one of
\* the MaxCalls calls when it returns, whether or not it changes the world;
\* when it raises nothing happens.
Counted(r) ==
    IF r.err = "none"
    THEN /\ ncalls < MaxCalls
         /\ SetWorld(r.w)
         /\ ncalls' = ncalls + 1
    ELSE /\ SetWorld(World)
         /\ ncalls' = ncalls

\* The history of writes after a call that stored a component of class t on
\* the entity: unchanged when the call raised.
Wrote(r, entity, t) ==
    IF r.err = "none"
    THEN [last_write EXCEPT ![entity] = Put(@, t, tick)]
    ELSE last_write

\* The history of adds after an add_component of class t on the entity:
\* unchanged when the call raised.
Added(r, entity, t) ==
    IF r.err = "none" THEN last_add \cup {<<entity, t>>} ELSE last_add

WorldInit ==
    /\ impl \in Impls
    /\ archetypes = EmptyDict
    /\ entity_archetype = EmptyDict
    /\ entity_components = EmptyDict
    /\ next_id = 0
    /\ tick = 0
    /\ spawn_ticks = EmptyDict
    /\ change_ticks = EmptyDict
    /\ resources = EmptyDict
    /\ observers = <<>>

Spawn ==
    /\ next_id < MaxEntities
    /\ \E components \in SpawnArgs :
           /\ Call(spawn(World, components).w)
           /\ last_write' = Put(last_write, next_id,
                                [t \in TypeSet(components) |-> tick])
           /\ last_add' = last_add
    /\ UNCHANGED <<bufVars, schedVars, updates, written, registered, callVars>>

Despawn ==
    /\ \E entity \in EntityIds :
           /\ Call(despawn(World, entity).w)
           /\ last_write' = Pop(last_write, entity)
           /\ last_add' = {p \in last_add : p[1] # entity}
    /\ UNCHANGED <<bufVars, schedVars, updates, written, registered, callVars>>

AddComponent ==
    /\ \E entity \in EntityIds, component \in Components :
           LET r == add_component(World, entity, component) IN
           /\ Call(r.w)
           /\ last_write' = Wrote(r, entity, component.type)
    /\ UNCHANGED <<bufVars, schedVars, updates, written, registered, last_add,
                   callVars>>

\* add_component again, with the history of this tick's adds kept.
AddComponentNow ==
    /\ \E entity \in EntityIds, component \in Components :
           LET r == add_component(World, entity, component) IN
           /\ Counted(r)
           /\ last_write' = Wrote(r, entity, component.type)
           /\ last_add' = Added(r, entity, component.type)
    /\ UNCHANGED <<bufVars, schedVars, updates, written, registered, callVars>>

SetComponent ==
    /\ impl = "ecs"
    /\ \E entity \in EntityIds, component \in Components :
           LET r == set_component(World, entity, component.type, component) IN
           /\ Call(r.w)
           /\ last_write' = Wrote(r, entity, component.type)
    /\ UNCHANGED <<bufVars, schedVars, updates, written, registered, last_add,
                   callVars>>

RemoveComponent ==
    /\ \E entity \in EntityIds, component_type \in Types :
           LET r == remove_component(World, entity, component_type) IN
           /\ Call(r.w)
           /\ last_write' = IF r.err = "none"
                            THEN [last_write EXCEPT ![entity] = Pop(@, component_type)]
                            ELSE last_write
    /\ UNCHANGED <<bufVars, schedVars, updates, written, registered, last_add,
                   callVars>>

\* A resource call with outcome r: it is entered in the log when it
\* returns.
ResourceCall(r, entry) ==
    /\ Counted(r)
    /\ res_log' = IF r.err = "none" THEN Append(res_log, entry) ELSE res_log

InsertResource ==
    /\ \E resource \in Resources :
           ResourceCall(insert_resource(World, resource),
                        [op |-> "insert", type |-> resource.type,
                         resource |-> resource])
    /\ UNCHANGED <<bufVars, schedVars, updates, written, registered, writeVars,
                   dispatched>>

RemoveResource ==
    /\ \E t \in ResourceTypes :
           ResourceCall(remove_resource(World, t),
                        [op |-> "remove", type |-> t, resource |-> NoRet])
    /\ UNCHANGED <<bufVars, schedVars, updates, written, registered, writeVars,
                   dispatched>>

\* Schedule.run on a schedule with no systems: the tick advances, the loop
\* body never runs.  The calls systems make are the other actions.
RunEmpty ==
    /\ tick < MaxTick
    /\ Call([World EXCEPT !.tick = @ + 1])
    /\ last_add' = {}
    /\ UNCHANGED <<bufVars, schedVars, updates, written, registered, last_write,
                   callVars>>

\* ------------------------------------------------------------ EventBuffer
\* The EventBuffer object as one value.
Buffer == [impl |-> impl, current |-> current, next |-> next]

\* A read that also returns the events of the subclasses of t.
pyecs_read_with_subclasses(b, t) ==
    [b |-> b,
     ret |-> (IF t \in DOMAIN b.current THEN b.current[t] ELSE <<>>)
             \o (IF t = "Event" /\ "EntityEvent" \in DOMAIN b.current
                 THEN b.current["EntityEvent"] ELSE <<>>)]

\* pyecs.EventBuffer.read: the list under t, or a new empty list.
pyecs_read(b, t) ==
    [b |-> b, ret |-> IF t \in DOMAIN b.current THEN b.current[t] ELSE <<>>]

\* A read that looks into the writable generation.
ecs_read_from_next(b, t) ==
    [b |-> b, ret |-> IF t \in DOMAIN b.next THEN b.next[t] ELSE <<>>]

\* ecs.EventBuffer.read: current is a defaultdict(list), so reading a class
\* that has no list yet stores an empty one under it.
ecs_read(b, t) ==
    LET cur == IF t \in DOMAIN b.current THEN b.current
               ELSE Put(b.current, t, <<>>)
    IN  [b |-> [b EXCEPT !.current = cur], ret |-> cur[t]]

read(b, t) == IF b.impl = "pyecs" THEN pyecs_read(b, t) ELSE ecs_read(b, t)

\* EventBuffer.write(*events): each event is appended to the list of its
\* own class in next, which is created on the first write.
RECURSIVE write(_, _)
write(b, events) ==
    IF events = <<>> THEN b
    ELSE LET ev == Head(events)
             t == ev.type
             lst == IF t \in DOMAIN b.next THEN b.next[t] ELSE <<>>
         IN  write([b EXCEPT !.next = Put(@, t, Append(lst, ev))], Tail(events))

\* An update that does not clear next.
update_without_clear(b) == [b EXCEPT !.current = b.next]

\* EventBuffer.update: current = next.copy(); next.clear()
update(b) == [b EXCEPT !.current = b.next, !.next = EmptyDict]

\* The buffer after a caller has read each class of ts.
RECURSIVE ReadEach(_, _)
ReadEach(b, ts) ==
    IF ts = {} THEN b
    ELSE LET t == CHOOSE x \in ts : TRUE
         IN  ReadEach(read(b, t).b, ts \ {t})

SetBuffer(b) ==
    /\ current' = b.current
    /\ next' = b.next

\* The event objects a caller creates for one write call: none, one or two
\* new objects, each of any class.
NewEvents ==
    {<<>>}
    \cup {<<[type |-> t, id |-> Len(written)]>> : t \in EventTypes}
    \cup {<<[type |-> t, id |-> Len(written)],
            [type |-> u, id |-> Len(written) + 1]>> :
              t \in EventTypes, u \in EventTypes}

\* The history entries of the events of one write call.
Stamp(events, by) ==
    [i \in 1 .. Len(events) |->
        [type |-> events[i].type, upd |-> updates, run |-> runs, by |-> by]]

\* What read returns for class t in the current state.
Readable(t) == read(Buffer, t).ret

\* -------------------------------------------------------------- observers
\* An isinstance that accepts the exact class only.
isinstance_exact_class(event, cls) == event.type = cls

\* isinstance(event, cls): the class of the event is cls or a subclass.
isinstance(event, cls) == event.type = cls \/ <<event.type, cls>> \in Subclass

\* ecs.World.add_observer: self.observers.append(Observer(event_type, callback))
add_observer(w, event_type, callback) ==
    Return([w EXCEPT !.observers =
               Append(@, [event_type |-> event_type, callback |-> callback])],
           NoRet)

\* ecs.World.trigger, the loop from the i-th observer on: the callbacks it
\* invokes, in order.  A callback is handed the event and the world; the
\* callbacks here leave both alone.
RECURSIVE trigger_from(_, _, _)
trigger_from(w, i, event) ==
    IF i > Len(w.observers) THEN <<>>
    ELSE IF isinstance(event, w.observers[i].event_type)
    THEN <<w.observers[i].callback>> \o trigger_from(w, i + 1, event)
    ELSE trigger_from(w, i + 1, event)

\* ecs.World.trigger(event): the world it leaves and what it invoked.
trigger(w, event) ==
    [w |-> w, ret |-> NoRet, err |-> "none", invoked |-> trigger_from(w, 1, event)]

AddObserver ==
    /\ impl = "ecs"
    /\ Len(observers) < MaxObservers
    /\ \E event_type \in EventTypes, callback \in CallbackIds :
           SetWorld(add_observer(World, event_type, callback).w)
    /\ UNCHANGED <<bufVars, schedVars, histVars, writeVars, callVars>>

\* The observers are registered during setup, before the first event is
\* created and before the buffer is swapped.
SetupObserver ==
    /\ written = <<>>
    /\ updates = 0
    /\ Len(observers) < MaxSetup
    /\ AddObserver

\* A trigger that also queues the event in the buffer.
Trigger_through_buffer ==
    /\ impl = "ecs"
    /\ Len(written) < MaxEvents
    /\ \E t \in EventTypes :
           LET event == [type |-> t, id |-> Len(written)]
               r == trigger(World, event)
           IN  /\ SetWorld(r.w)
               /\ dispatched' = [event |-> event, callbacks |-> r.invoked,
                                 nobs |-> Len(observers)]
               /\ written' = written \o Stamp(<<event>>, "trigger")
               /\ SetBuffer(write(Buffer, <<event>>))
    /\ UNCHANGED <<schedVars, updates, registered, ncalls, writeVars,
                   res_log>>

\* The host or a system creates an event and hands it to ecs.World.trigger.
Trigger ==
    /\ impl = "ecs"
    /\ Len(written) < MaxEvents
    /\ \E t \in EventTypes :
           LET event == [type |-> t, id |-> Len(written)]
               r == trigger(World, event)
           IN  /\ SetWorld(r.w)
               /\ dispatched' = [event |-> event, callbacks |-> r.invoked,
                                 nobs |-> Len(observers)]
               /\ written' = written \o Stamp(<<event>>, "trigger")
    /\ UNCHANGED <<bufVars, schedVars, updates, registered, ncalls, writeVars,
                   res_log>>

\* ---------------------------------------- a host driving an EventBuffer
BufWrite ==
    \E events \in NewEvents :
        /\ Len(written) + Len(events) <= MaxEvents
        /\ SetBuffer(write(Buffer, events))
        /\ written' = written \o Stamp(events, "host")
        /\ UNCHANGED <<worldVars, schedVars, updates, registered, ncalls,
                       writeVars, callVars>>

BufRead ==
    \E t \in EventTypes :
        /\ SetBuffer(read(Buffer, t).b)
        /\ UNCHANGED <<worldVars, schedVars, histVars, writeVars, callVars>>

BufUpdate ==
    /\ updates < MaxUpdates
    /\ SetBuffer(update(Buffer))
    /\ updates' = updates + 1
    /\ UNCHANGED <<worldVars, schedVars, written, registered, ncalls,
                   writeVars, callVars>>

\* --------------------------------------------------------------- Schedule
\* An add that puts the new systems in front.
add_in_front(s, system) == system \o s

\* Schedule.add(*system): self.systems.extend(system)
add(s, system) == s \o system

Add ==
    /\ pc = 0
    /\ \E system \in AddArgs :
           /\ Len(systems) + Len(system) <= MaxSystems
           /\ systems' = add(systems, system)
           /\ registered' = registered \o system
    /\ UNCHANGED <<worldVars, bufVars, pc, calls, runs, updates, written,
                   ncalls, writeVars, callVars>>

\* Schedule.run, first statement: world.tick += 1.
RunBegin ==
    /\ pc = 0
    /\ runs < MaxRuns
    /\ SetWorld([World EXCEPT !.tick = @ + 1])
    /\ pc' = 1
    /\ calls' = <<>>
    /\ runs' = runs + 1
    /\ last_add' = {}
    /\ UNCHANGED <<bufVars, systems, histVars, last_write, callVars>>

\* Schedule.run, one pass of "for system in self.systems": the system is
\* invoked; it reads the classes it likes and writes one event or none.
SystemCall ==
    /\ pc \in 1 .. Len(systems)
    /\ \E reads \in SUBSET EventTypes, events \in NewEvents :
           /\ Len(events) <= 1
           /\ Len(written) + Len(events) <= MaxEvents
           /\ SetBuffer(write(ReadEach(Buffer, reads), events))
           /\ written' = written \o Stamp(events, "system")
    /\ calls' = Append(calls, systems[pc])
    /\ pc' = pc + 1
    /\ UNCHANGED <<worldVars, systems, runs, updates, registered, ncalls,
                   writeVars, callVars>>

\* A failing system after which run still swaps the buffer.
SystemFail_then_update ==
    /\ pc \in 1 .. Len(systems)
    /\ \E reads \in SUBSET EventTypes, events \in NewEvents :
           /\ Len(events) <= 1
           /\ Len(written) + Len(events) <= MaxEvents
           /\ SetBuffer(update(write(ReadEach(Buffer, reads), events)))
           /\ written' = written \o Stamp(events, "system")
    /\ calls' = calls \o <<systems[pc], "raise">>
    /\ pc' = 0
    /\ updates' = updates + 1
    /\ UNCHANGED <<worldVars, systems, runs, registered, ncalls, writeVars,
                   callVars>>

\* Schedule.run, one pass of the loop in which the system raises, after it
\* has read and written what it likes: the exception is not caught, so it
\* leaves run; the rest of the loop and the statement after it are skipped.
SystemFail ==
    /\ pc \in 1 .. Len(systems)
    /\ \E reads \in SUBSET EventTypes, events \in NewEvents :
           /\ Len(events) <= 1
           /\ Len(written) + Len(events) <= MaxEvents
           /\ SetBuffer(write(ReadEach(Buffer, reads), events))
           /\ written' = written \o Stamp(events, "system")
    /\ calls' = calls \o <<systems[pc], "raise">>
    /\ pc' = 0
    /\ UNCHANGED <<worldVars, systems, runs, updates, registered, ncalls,
                   writeVars, callVars>>

\* A run that swaps the buffer twice.
ecs_run_end_updates_twice ==
    /\ SetBuffer(update(update(Buffer)))
    /\ calls' = calls \o <<"update", "update">>
    /\ updates' = updates + 2

\* ecs.Schedule.run, after the loop: self.events.update().
ecs_run_end ==
    /\ SetBuffer(update(Buffer))
    /\ calls' = Append(calls, "update")
    /\ updates' = updates + 1

\* pyecs.Schedule.run, after the loop: nothing; the method returns.
pyecs_run_end ==
    /\ UNCHANGED <<bufVars, calls, updates>>

RunEnd ==
    /\ pc = Len(systems) + 1
    /\ IF impl = "ecs" THEN ecs_run_end ELSE pyecs_run_end
    /\ pc' = 0
    /\ UNCHANGED <<worldVars, systems, runs, written, registered, ncalls,
                   writeVars, callVars>>

\* A host whose events go straight into the readable generation.
HostWrite_into_current ==
    /\ pc = 0
    /\ \E events \in NewEvents :
           /\ Len(written) + Len(events) <= MaxEvents
           /\ SetBuffer([Buffer EXCEPT !.current =
                  write([Buffer EXCEPT !.next = Buffer.current], events).next])
           /\ written' = written \o Stamp(events, "host")
    /\ UNCHANGED <<worldVars, schedVars, updates, registered, ncalls,
                   writeVars, callVars>>

\* The host writes to the schedule's buffer between two runs.
HostWrite ==
    /\ pc = 0
    /\ BufWrite

\* ---------------------------------------------------------- specifications
Init ==
    /\ WorldInit
    /\ current = EmptyDict
    /\ next = EmptyDict
    /\ systems = <<>>
    /\ pc = 0
    /\ calls = <<>>
    /\ runs = 0
    /\ updates = 0
    /\ written = <<>>
    /\ registered = <<>>
    /\ ncalls = 0
    /\ last_write = EmptyDict
    /\ last_add = {}
    /\ res_log = <<>>
    /\ dispatched = NoDispatch

\* The world under any sequence of calls, by the host or by systems.
Next ==
    \/ Spawn
    \/ Despawn
    \/ AddComponent
    \/ SetComponent
    \/ RemoveComponent
    \/ RunEmpty

Spec == Init /\ [][Next]_vars

\* The same world, with the history of the adds of the current tick.
NextAdd ==
    \/ Spawn
    \/ Despawn
    \/ AddComponentNow
    \/ SetComponent
    \/ RemoveComponent
    \/ RunEmpty

SpecAdd == Init /\ [][NextAdd]_vars

\* The world and its resource registry.
NextRes ==
    \/ Spawn
    \/ Despawn
    \/ AddComponent
    \/ SetComponent
    \/ RemoveComponent
    \/ RunEmpty
    \/ InsertResource
    \/ RemoveResource

SpecRes == Init /\ [][NextRes]_vars

\* An EventBuffer driven directly: any interleaving of write, read, update.
NextBuf ==
    \/ BufWrite
    \/ BufRead
    \/ BufUpdate

SpecBuf == Init /\ [][NextBuf]_vars

\* A world whose observers are registered and triggered in any order.
NextObs ==
    \/ AddObserver
    \/ Trigger

SpecObs == Init /\ [][NextObs]_vars

\* A world with observers next to an EventBuffer: events are triggered, and
\* events are written and swapped.
NextTrig ==
    \/ SetupObserver
    \/ Trigger
    \/ BufWrite
    \/ BufUpdate

SpecTrig == Init /\ [][NextTrig]_vars

\* A Schedule with its systems and the buffer they share.
NextSched ==
    \/ Add
    \/ RunBegin
    \/ SystemCall
    \/ RunEnd
    \/ HostWrite

SpecSched == Init /\ [][NextSched]_vars

\* A Schedule whose systems may raise.
NextFail ==
    \/ Add
    \/ RunBegin
    \/ SystemCall
    \/ SystemFail
    \/ RunEnd

SpecFail == Init /\ [][NextFail]_vars

\* ================================================================ claims
\* The live entities: the keys of entity_archetype (get_entities).
Live == DOMAIN entity_archetype
\* The ids issued so far that are no longer live.
Despawned == (0 .. (next_id - 1)) \ Live
\* The ids of the events created so far.
EventIds == 0 .. (Len(written) - 1)
\* How many update calls have followed the write of an event.
Age(id) == updates - written[id + 1].upd
\* How often read(t) returns the event with this id.
TimesReturned(id, t) ==
    Cardinality({i \in 1 .. Len(Readable(t)) : Readable(t)[i].id = id})
\* The systems among the entries of a run's call history.
SystemCalls(c) == SelectSeq(c, LAMBDA x : x \in SystemIds)

\* C1: for every live entity, the archetype it is mapped to exists in the
\* table and its component-type set (its key) equals the set of classes the
\* component store holds for the entity, after any sequence of calls,
\* the failing ones included.
C1_ArchetypeKeyIsComponentSet ==
    \A e \in Live :
        /\ e \in DOMAIN entity_components
        /\ HasArchetype(archetypes, entity_archetype[e])
        /\ entity_archetype[e] = DOMAIN entity_components[e]
        /\ archetypes[entity_archetype[e]].components
               = DOMAIN entity_components[e]

\* An entity that holds both classes, one of them stored at a later tick
\* than the other: add_component has moved it to another archetype.
C1_Witness ==
    \E e \in Live :
        /\ entity_archetype[e] = Types
        /\ last_write[e]["Position"] # last_write[e]["Velocity"]

\* Whether entity e passes the with and without filters.
Matches(e, with_set, without_set) ==
    /\ e \in Live
    /\ with_set \subseteq DOMAIN entity_components[e]
    /\ DOMAIN entity_components[e] \cap without_set = {}

\* C2: query(with, without) with no changed filter and spawned = false
\* returns exactly the live entities whose component-type set includes with
\* and is disjoint from without, each once (so the empty sequence when there
\* is none).
C2_QueryReturnsExactlyTheMatches ==
    \A with_set \in SUBSET Types, without_set \in SUBSET Types :
        LET r == query(World, with_set, without_set, {}, FALSE) IN
        /\ \A i \in 1 .. Len(r) : r[i] \in Live
        /\ \A e \in EntityIds :
               Count(r, e) = IF Matches(e, with_set, without_set) THEN 1 ELSE 0

\* Two live entities, and a query with both filters set that returns one of
\* them, while another query returns nothing.
C2_Witness ==
    /\ Cardinality(Live) = 2
    /\ \E with_set \in SUBSET Types, without_set \in SUBSET Types :
           /\ with_set # {} /\ without_set # {}
           /\ Len(query(World, with_set, without_set, {}, FALSE)) = 1
    /\ \E with_set \in SUBSET Types : query(World, with_set, {}, {}, FALSE) = <<>>

\* C3: every live entity occurs exactly once in the member lists of all
\* archetypes together, namely in the list of the archetype it is mapped to,
\* and every member of every list is a live entity.
C3_MemberListsHoldEachLiveEntityOnce ==
    /\ \A e \in Live :
           /\ HasArchetype(archetypes, entity_archetype[e])
           /\ \A k \in DOMAIN archetypes :
                  Count(archetypes[k].entities, e)
                      = IF k = entity_archetype[e] THEN 1 ELSE 0
    /\ \A k \in DOMAIN archetypes :
           \A i \in 1 .. Len(archetypes[k].entities) :
               archetypes[k].entities[i] \in Live

\* One entity has been despawned and two archetypes have been emptied
\* (one by the despawn, one by a migration), while an entity that holds
\* both classes is live.
C3_Witness ==
    /\ Despawned # {}
    /\ \E k1 \in DOMAIN archetypes, k2 \in DOMAIN archetypes :
           /\ k1 # k2
           /\ archetypes[k1].entities = <<>>
           /\ archetypes[k2].entities = <<>>
    /\ \E e \in Live : entity_archetype[e] = Types

\* C4: an event is returned by read of its class exactly while one update
\* has followed its write: not before the first update, once between the
\* first and the second, never after the second; read of another class
\* never returns it; and a step without an update (a write, a read) leaves
\* what read returns unchanged.
C4_ReadableAfterExactlyOneUpdate ==
    \A id \in EventIds, t \in EventTypes :
        TimesReturned(id, t)
            = IF t = written[id + 1].type /\ Age(id) = 1 THEN 1 ELSE 0

C4_EventDelay ==
    /\ []C4_ReadableAfterExactlyOneUpdate
    /\ [][updates' = updates =>
            \A t \in EventTypes : Readable(t)' = Readable(t)]_vars

\* Three events: one just written, one that is being returned by read, one
\* that two updates have followed.
C4_Witness ==
    \E a \in EventIds, b \in EventIds, c \in EventIds :
        /\ Age(a) = 0 /\ TimesReturned(a, written[a + 1].type) = 0
        /\ Age(b) = 1 /\ TimesReturned(b, written[b + 1].type) = 1
        /\ Age(c) = 2 /\ TimesReturned(c, written[c + 1].type) = 0

\* C5, as claimed: every run that has completed called update exactly once,
\* after its last system.
C5_EveryRunUpdatesOnce ==
    (pc = 0 /\ runs > 0) =>
        /\ Count(calls, "update") = 1
        /\ calls[Len(calls)] = "update"

\* C5, amended: while a run is in progress update has not been called; a
\* completed run of ecs.py's Schedule has called it exactly once, after the
\* last system; a completed run of pyecs.py's Schedule has not called it.
C5_EcsRunUpdatesOnceAfterSystems ==
    /\ pc # 0 => (Len(calls) = pc - 1 /\ ~Contains(calls, "update"))
    /\ (pc = 0 /\ runs > 0) =>
           IF impl = "ecs"
           THEN /\ Count(calls, "update") = 1
                /\ calls[Len(calls)] = "update"
           ELSE ~Contains(calls, "update")

\* A completed run of ecs.py's Schedule that invoked two systems and then
\* update.
C5_Witness ==
    /\ impl = "ecs"
    /\ pc = 0
    /\ Len(calls) = 3
    /\ calls[3] = "update"

\* C6: a run adds one to the tick when it starts, before any system is
\* invoked; it then invokes the registered systems one by one in the order
\* they were passed to add, each once; nothing else changes the tick.
C6_TickThenSystemsInOrder ==
    /\ [](tick = runs)
    /\ [](pc # 0 => SystemCalls(calls) = SubSeq(registered, 1, pc - 1))
    /\ [][/\ (pc = 0 /\ pc' # 0) => (tick' = tick + 1 /\ calls' = <<>>)
          /\ ~(pc = 0 /\ pc' # 0) => tick' = tick
          /\ (pc # 0 /\ pc' = 0) => SystemCalls(calls') = registered]_vars

\* The second run of a schedule with two different systems has completed.
C6_Witness ==
    /\ pc = 0
    /\ tick = 2
    /\ Len(registered) = 2
    /\ registered[1] # registered[2]
    /\ SystemCalls(calls) = registered

\* C7: with ecs.py's Schedule, whenever a system is about to be invoked, an
\* event written by a system is returned by read of its class exactly when
\* it was written during the previous run: not in the run it was written
\* in, in the next run, in no later run.
C7_SystemEventsReadableInNextRunOnly ==
    (impl = "ecs" /\ pc \in 1 .. Len(systems)) =>
        \A id \in EventIds :
            written[id + 1].by = "system" =>
                \A t \in EventTypes :
                    TimesReturned(id, t)
                        = IF t = written[id + 1].type
                             /\ written[id + 1].run = runs - 1
                          THEN 1 ELSE 0

\* The second system of the third run is about to be invoked: an event of
\* the first run is gone, one of the second run is returned, one written by
\* the first system of this run is not.
C7_Witness ==
    /\ impl = "ecs"
    /\ pc = 2 /\ Len(systems) = 2
    /\ runs = 3
    /\ \E a \in EventIds, b \in EventIds, c \in EventIds :
           /\ written[a + 1].by = "system" /\ written[a + 1].run = 1
           /\ TimesReturned(a, written[a + 1].type) = 0
           /\ written[b + 1].by = "system" /\ written[b + 1].run = 2
           /\ TimesReturned(b, written[b + 1].type) = 1
           /\ written[c + 1].by = "system" /\ written[c + 1].run = 3
           /\ TimesReturned(c, written[c + 1].type) = 0

\* Entity e has left world w: it is in no table and no member list, and
\* get_component raises KeyError and has_component is false for every class.
Gone(w, e) ==
    /\ e \notin get_entities(w)
    /\ \A k \in DOMAIN w.archetypes : ~Contains(w.archetypes[k].entities, e)
    /\ e \notin DOMAIN w.entity_components
    /\ e \notin DOMAIN w.change_ticks
    /\ e \notin DOMAIN w.spawn_ticks
    /\ \A t \in Types :
           /\ get_component(w, e, t).err = "KeyError"
           /\ ~has_component(w, e, t)

\* C8: despawn of a live entity returns and leaves it gone, and an entity
\* that was despawned stays gone in every later state.
C8_DespawnRemovesEverything ==
    /\ \A e \in Live :
           /\ despawn(World, e).err = "none"
           /\ Gone(despawn(World, e).w, e)
    /\ \A e \in Despawned : Gone(World, e)

\* An entity that held components has been despawned at an earlier tick,
\* and another entity is live.
C8_Witness ==
    /\ Despawned # {}
    /\ Live # {}
    /\ tick > 0
    /\ \E e \in Live : DOMAIN entity_components[e] = Types

\* add_component(e, c) and then remove_component(e, type(c)) on world w
\* both return and leave e with the archetype key and the components it
\* has in w.
RoundTripRestores(w, e, c) ==
    LET a == add_component(w, e, c)
        r == remove_component(a.w, e, c.type)
    IN  /\ a.err = "none"
        /\ r.err = "none"
        /\ r.w.entity_archetype[e] = w.entity_archetype[e]
        /\ r.w.archetypes[r.w.entity_archetype[e]].components
               = w.entity_archetype[e]
        /\ DOMAIN r.w.entity_components[e] = DOMAIN w.entity_components[e]
        /\ r.w.entity_components[e] = w.entity_components[e]

\* C9, as claimed: the round trip restores the key and the component set
\* for every live entity and every component.
C9_RoundTripForEveryComponent ==
    \A e \in Live, c \in Components : RoundTripRestores(World, e, c)

\* C9, amended: the round trip restores the key and the component set for
\* every live entity and every component of a class the entity does not hold.
C9_RoundTripForAbsentClass ==
    \A e \in Live, c \in Components :
        c.type \notin DOMAIN entity_components[e] =>
            RoundTripRestores(World, e, c)

\* A live entity that holds one class, and a component of the other class
\* whose add moves the entity to another archetype.
C9_Witness ==
    \E e \in Live, c \in Components :
        /\ DOMAIN entity_components[e] # {}
        /\ c.type \notin DOMAIN entity_components[e]
        /\ add_component(World, e, c).w.entity_archetype[e] # entity_archetype[e]
        /\ RoundTripRestores(World, e, c)

\* C10: in pyecs.py, for a live entity and a class it holds, a query whose
\* with and without filters the entity passes and whose changed set is that
\* class returns the entity when the class was last stored (by spawn or a
\* later write) in the current tick, and does not return it when the tick
\* has advanced by two or more since.
C10_ChangedSeesThisTickNotTwoTicksAgo ==
    impl = "pyecs" =>
        \A e \in Live :
            \A c \in DOMAIN entity_components[e] :
                \A with_set \in SUBSET DOMAIN entity_components[e],
                   without_set \in SUBSET (Types \ DOMAIN entity_components[e]) :
                    LET r == query(World, with_set, without_set, {c}, FALSE) IN
                    /\ last_write[e][c] = tick => Contains(r, e)
                    /\ last_write[e][c] <= tick - 2 => ~Contains(r, e)

\* At tick 2, one entity whose component was stored at tick 0 and another
\* whose component of the same class was stored at tick 2: the changed
\* query returns the second only.
C10_Witness ==
    /\ impl = "pyecs"
    /\ tick = 2
    /\ \E e1 \in Live, e2 \in Live, c \in Types :
           /\ c \in DOMAIN entity_components[e1]
           /\ c \in DOMAIN entity_components[e2]
           /\ last_write[e1][c] = 0
           /\ last_write[e2][c] = 2
           /\ query(World, {c}, {}, {c}, FALSE) = <<e2>>

\* The classes add_component has stored on entity e during the current tick.
AddedNow(e) == {c \in Types : <<e, c>> \in last_add}

\* C11, as claimed: when add_component has stored every class of a non-empty
\* set S on a live entity during the current tick, and the entity passes the
\* with and without filters, query(with, without, changed = S) returns it.
C11_AddedThisTickIsReturned ==
    \A e \in Live :
        \A S \in (SUBSET AddedNow(e)) \ {{}} :
            \A with_set \in SUBSET Types, without_set \in SUBSET Types :
                Matches(e, with_set, without_set) =>
                    Contains(query(World, with_set, without_set, S, FALSE), e)

\* C11, amended: the same for the sets S of classes the entity still holds,
\* none of them removed by remove_component since it was added.
C11_AddedThisTickAndHeldIsReturned ==
    \A e \in Live :
        \A S \in (SUBSET (AddedNow(e) \cap DOMAIN entity_components[e])) \ {{}} :
            \A with_set \in SUBSET Types, without_set \in SUBSET Types :
                Matches(e, with_set, without_set) =>
                    Contains(query(World, with_set, without_set, S, FALSE), e)

\* After a run, both classes have been stored on one entity by add_component
\* (one added, one overwritten), and pyecs.py's query with both classes as
\* its changed set returns the entity.
C11_Witness ==
    /\ impl = "pyecs"
    /\ tick > 0
    /\ \E e \in Live :
           /\ AddedNow(e) = Types
           /\ DOMAIN entity_components[e] = Types
           /\ Contains(query(World, {}, {}, Types, FALSE), e)

\* The ids a caller may pass: those issued so far, live or despawned, and
\* ids that have not been issued.
AnyIds == 0 .. MaxEntities

\* C12: get_component and remove_component, called with an id that is not a
\* live entity or with a class the entity does not hold, raise KeyError and
\* leave every table of the world as it was.
C12_AbsentRaisesKeyErrorAndChangesNothing ==
    \A e \in AnyIds, t \in Types :
        (e \notin Live \/ t \notin DOMAIN entity_components[e]) =>
            /\ get_component(World, e, t) = Raise(World, "KeyError")
            /\ remove_component(World, e, t) = Raise(World, "KeyError")

\* One entity has been despawned, and a live entity holds one class and not
\* the other: reading the held class returns, reading the other raises.
C12_Witness ==
    /\ Despawned # {}
    /\ \E e \in Live, t \in Types, u \in Types :
           /\ DOMAIN entity_components[e] = {t}
           /\ u # t
           /\ get_component(World, e, t).err = "none"
           /\ get_component(World, e, u).err = "KeyError"
           /\ remove_component(World, e, u).err = "KeyError"

\* C13, as claimed: add_component called with an id that is not a live
\* entity raises, the exception is not the one get_component raises for that
\* id, and the world is left as it was.
C13_AddToUnknownRaisesItsOwnError ==
    \A e \in AnyIds \ Live, c \in Components :
        LET r == add_component(World, e, c) IN
        /\ r.err # "none"
        /\ r.err # get_component(World, e, c.type).err
        /\ r.w = World

\* C14: add_component(e, c) on a live entity that holds a component of the
\* class of c returns, stores c in place of the old component, stamps the
\* change tick of the class with the current tick, and leaves the entity's
\* archetype key, its set of classes, its other components and the set of
\* archetypes as they were, the entity being a member of its archetype once
\* and of no other.
C14_AddOverwritesInPlace ==
    \A e \in Live, c \in Components :
        c.type \in DOMAIN entity_components[e] =>
            LET r == add_component(World, e, c) IN
            /\ r.err = "none"
            /\ r.w.entity_components[e] = Put(entity_components[e], c.type, c)
            /\ r.w.change_ticks[e][c.type] = tick
            /\ r.w.entity_archetype = entity_archetype
            /\ DOMAIN r.w.entity_components[e] = DOMAIN entity_components[e]
            /\ DOMAIN r.w.archetypes = DOMAIN archetypes
            /\ \A k \in DOMAIN r.w.archetypes :
                   Count(r.w.archetypes[k].entities, e)
                       = IF k = entity_archetype[e] THEN 1 ELSE 0

\* pyecs.py, one entity, spawned with both classes (no other archetype was
\* ever created): its Position has been stored again at a later tick, with
\* the other payload, and its Velocity has not.
C14_Witness ==
    /\ impl = "pyecs"
    /\ next_id = 1
    /\ DOMAIN archetypes = {Types}
    /\ 0 \in Live
    /\ change_ticks[0]["Position"] = tick
    /\ change_ticks[0]["Velocity"] < tick
    /\ entity_components[0]["Position"].value = 2

\* C15: ecs.py's set_component(e, T, v), for a live entity that holds T,
\* returns the component stored under T before the call, stores v under T,
\* stamps the change tick of T with the current tick and changes no
\* archetype, no member list and no other component; for an id that is not
\* live or a class the entity does not hold it raises KeyError and leaves
\* the world as it was.
C15_SetComponentReplacesOrRaises ==
    impl = "ecs" =>
        \A e \in AnyIds, t \in Types, v \in Components :
            LET r == set_component(World, e, t, v) IN
            IF e \in Live /\ t \in DOMAIN entity_components[e]
            THEN /\ r.err = "none"
                 /\ r.ret = entity_components[e][t]
                 /\ r.w.entity_components[e] = Put(entity_components[e], t, v)
                 /\ r.w.change_ticks[e][t] = tick
                 /\ r.w.archetypes = archetypes
                 /\ r.w.entity_archetype = entity_archetype
                 /\ \A o \in Live \ {e} :
                        r.w.entity_components[o] = entity_components[o]
            ELSE r = Raise(World, "KeyError")

\* ecs.py: a component of a live entity has been stored during the current
\* tick, neither by spawn nor by add_component (so by set_component), while
\* the entity lacks the other class and another id is not live.
C15_Witness ==
    /\ impl = "ecs"
    /\ \E e \in Live, t \in Types :
           /\ t \in DOMAIN entity_components[e]
           /\ last_write[e][t] = tick
           /\ spawn_ticks[e] < tick
           /\ <<e, t>> \notin last_add
           /\ DOMAIN entity_components[e] # Types
    /\ AnyIds \ Live # {}

\* C16: despawn called with an id that is not live (never issued, or
\* despawned before) returns and leaves the world as it was.
C16_DespawnOfUnknownIsNoOp ==
    \A e \in AnyIds \ Live : despawn(World, e) = Return(World, NoRet)

\* One entity has been despawned (so it can be despawned again) while
\* another one is live and holds components.
C16_Witness ==
    /\ Despawned # {}
    /\ \E e \in Live : entity_components[e] # EmptyDict
    /\ \E e \in Despawned : despawn(World, e).w = World

\* The resource calls on class t that have returned, in call order.
LogOf(t) == SelectSeq(res_log, LAMBDA x : x.type = t)
\* A resource of class t has been inserted and not removed since.
Inserted(t) == LogOf(t) # <<>> /\ LogOf(t)[Len(LogOf(t))].op = "insert"
\* The resource most recently inserted for class t.
LatestInserted(t) == LogOf(t)[Len(LogOf(t))].resource
\* Worlds w1 and w2 differ in the resource registry at most.
SameButResources(w1, w2) == [w1 EXCEPT !.resources = w2.resources] = w2

\* C17: after any sequence of resource calls, for every class T:
\* get_resource(T) returns the resource most recently inserted for T when T
\* has not been removed since, and raises KeyError otherwise, changing
\* nothing; remove_resource(T) returns that same resource and leaves T
\* absent, or raises KeyError and changes nothing; insert_resource(r)
\* returns r and makes it the resource of its class; none of the three
\* changes another class's resource or any entity, component, archetype
\* or tick.
C17_ResourcesAreAMapFromClassToLatestInsert ==
    /\ \A t \in ResourceTypes :
           LET g == get_resource(World, t)
               r == remove_resource(World, t)
           IN  IF Inserted(t)
               THEN /\ g = Return(World, LatestInserted(t))
                    /\ r.err = "none"
                    /\ r.ret = LatestInserted(t)
                    /\ get_resource(r.w, t) = Raise(r.w, "KeyError")
                    /\ SameButResources(r.w, World)
                    /\ \A u \in ResourceTypes \ {t} :
                           get_resource(r.w, u).ret = get_resource(World, u).ret
               ELSE /\ g = Raise(World, "KeyError")
                    /\ r = Raise(World, "KeyError")
    /\ \A res \in Resources :
           LET i == insert_resource(World, res) IN
           /\ i.err = "none"
           /\ i.ret = res
           /\ get_resource(i.w, res.type) = Return(i.w, res)
           /\ SameButResources(i.w, World)
           /\ \A u \in ResourceTypes \ {res.type} :
                  get_resource(i.w, u).ret = get_resource(World, u).ret

\* In a world with a live entity, a resource was inserted, another of the
\* same class was inserted over it, and the class was then removed.
C17_Witness ==
    /\ \E e \in Live : entity_components[e] # EmptyDict
    /\ Len(res_log) = 3
    /\ res_log[1].op = "insert"
    /\ res_log[2].op = "insert"
    /\ res_log[2].type = res_log[1].type
    /\ res_log[2].resource # res_log[1].resource
    /\ res_log[3].op = "remove"
    /\ res_log[3].type = res_log[1].type
    /\ get_resource(World, res_log[1].type).err = "KeyError"

\* The positions, among the first n observers registered, of those whose
\* declared class is class t or a superclass of it.
Listening(t, n) ==
    {i \in 1 .. n : observers[i].event_type = t
                    \/ <<t, observers[i].event_type>> \in Subclass}
\* cbs holds the callbacks of the observers at the positions at, one entry
\* for each position, by ascending position.
InRegistrationOrder(cbs, at) ==
    /\ Len(cbs) = Cardinality(at)
    /\ \E f \in [1 .. Len(cbs) -> at] :
           /\ \A i, j \in 1 .. Len(cbs) : i < j => f[i] < f[j]
           /\ \A i \in 1 .. Len(cbs) : cbs[i] = observers[f[i]].callback

\* C18, the dispatch: what the latest trigger invoked, and what a trigger
\* made now would invoke for an event of either class, is the callback of
\* each observer registered at that time whose declared class is the
\* event's class or a superclass of it, once each, in registration order,
\* and of no other observer; trigger returns and leaves the world as it was.
C18_DispatchToListeningObservers ==
    /\ dispatched.event # NoEvent =>
           InRegistrationOrder(dispatched.callbacks,
                               Listening(dispatched.event.type, dispatched.nobs))
    /\ \A t \in EventTypes :
           LET r == trigger(World, [type |-> t, id |-> Len(written)]) IN
           /\ r.err = "none"
           /\ r.w = World
           /\ InRegistrationOrder(r.invoked, Listening(t, Len(observers)))

\* C18: ecs.py's trigger invokes, before it returns, the callbacks of the
\* observers that listen to the event's class or a superclass, each once,
\* in registration order, and no other; and an observer once registered
\* stays registered, at its position, in every later state.
C18_TriggerDispatchesInRegistrationOrder ==
    /\ []C18_DispatchToListeningObservers
    /\ [][SubSeq(observers', 1, Len(observers)) = observers]_vars

\* Three observers are registered; the second listens to the subclass only.
\* An event of the base class has been triggered: the first and the third
\* callback were invoked, in that order, the second was not.
C18_Witness ==
    /\ dispatched.event # NoEvent
    /\ dispatched.event.type = "Event"
    /\ dispatched.nobs = 3
    /\ observers[1] = [event_type |-> "Event", callback |-> "cbB"]
    /\ observers[2] = [event_type |-> "EntityEvent", callback |-> "cbA"]
    /\ observers[3] = [event_type |-> "Event", callback |-> "cbA"]
    /\ dispatched.callbacks = <<"cbB", "cbA">>

\* The ids of the events that were handed to trigger.
Triggered == {id \in EventIds : written[id + 1].by = "trigger"}
\* The event with this id is in a list of generation g.
InGeneration(g, id) ==
    \E t \in DOMAIN g : \E i \in 1 .. Len(g[t]) : g[t][i].id = id

\* C19, the state part: an event handed to trigger is in neither generation
\* of the buffer and read returns it for no class; the event of the latest
\* dispatch was handed to trigger, not to write; a trigger made now leaves
\* the world as it is.
C19_TriggeredEventsStayOutOfTheBuffer ==
    /\ \A id \in Triggered :
           /\ ~InGeneration(current, id)
           /\ ~InGeneration(next, id)
           /\ \A t \in EventTypes : TimesReturned(id, t) = 0
    /\ dispatched.event # NoEvent => dispatched.event.id \in Triggered
    /\ \A t \in EventTypes :
           trigger(World, [type |-> t, id |-> Len(written)]).w = World

\* C19: a triggered event is never in the buffer and never returned by
\* read, however many updates follow; the step that dispatches an event to
\* the observers changes neither generation; and a step that writes to the
\* buffer or swaps it dispatches nothing.
C19_TriggerAndBufferAreSeparate ==
    /\ []C19_TriggeredEventsStayOutOfTheBuffer
    /\ [][dispatched' # dispatched => (current' = current /\ next' = next)]_vars
    /\ [][(current' # current \/ next' # next \/ updates' # updates)
              => dispatched' = dispatched]_vars

\* An observer is registered.  An event it listens to was triggered and
\* dispatched to it, and an update has followed; an event of the same class
\* was written, is returned by read now, and was not dispatched.
C19_Witness ==
    /\ Len(observers) = 1
    /\ \E a \in Triggered, b \in EventIds \ Triggered :
           /\ Age(a) >= 1
           /\ dispatched.event.id = a
           /\ dispatched.callbacks = <<observers[1].callback>>
           /\ written[b + 1].type = written[a + 1].type
           /\ b > a
           /\ TimesReturned(b, written[b + 1].type) = 1

\* The event objects created so far, in the order they were written.
Created ==
    [i \in 1 .. Len(written) |-> [type |-> written[i].type, id |-> i - 1]]
\* The events of class t that exactly one update has followed, in the order
\* they were written.
ExpectedRead(t) ==
    SelectSeq(Created, LAMBDA ev : ev.type = t /\ Age(ev.id) = 1)

\* C20: read(T) returns, for either class T, the events of the readable
\* generation whose own class is T, in the order they were written (the
\* empty sequence when there is none), never an event of a subclass or a
\* superclass; after the read the writable generation is as it was, every
\* read returns what it would have returned, and the next update leaves
\* the buffer it would have left.
C20_ReadReturnsExactClassInWriteOrder ==
    \A t \in EventTypes :
        LET r == read(Buffer, t) IN
        /\ r.ret = ExpectedRead(t)
        /\ r.b.next = next
        /\ \A u \in EventTypes : read(r.b, u).ret = read(Buffer, u).ret
        /\ update(r.b) = update(Buffer)

\* Two events of the base class are readable, in the order they were
\* written; an event of the subclass is pending in the writable generation
\* and read of the subclass returns the empty sequence.
C20_Witness ==
    /\ Len(Readable("Event")) = 2
    /\ Readable("Event")[1].id < Readable("Event")[2].id
    /\ Readable("EntityEvent") = <<>>
    /\ "EntityEvent" \in DOMAIN next
    /\ next["EntityEvent"] # <<>>

\* C21, the state part: in ecs.py, query(with, without, spawned = True) with
\* an empty changed set returns each live entity that passes the with and
\* without filters and whose spawn tick is the current tick, once, and no
\* other entity.
C21_SpawnedReturnsThisTicksEntities ==
    impl = "ecs" =>
        \A with_set \in SUBSET Types, without_set \in SUBSET Types :
            LET r == query(World, with_set, without_set, {}, TRUE) IN
            \A e \in EntityIds :
                Count(r, e) = IF /\ Matches(e, with_set, without_set)
                                 /\ spawn_ticks[e] = tick
                              THEN 1 ELSE 0

\* C21: the above in every state, where the spawn tick of an entity is the
\* tick at which spawn issued its id and never changes afterwards; so an
\* entity spawned at tick T is returned at tick T and at no later tick.
C21_SpawnedFilter ==
    /\ []C21_SpawnedReturnsThisTicksEntities
    /\ [][impl = "ecs" =>
            /\ next_id' # next_id => spawn_ticks'[next_id] = tick
            /\ \A e \in DOMAIN spawn_ticks \cap DOMAIN spawn_ticks' :
                   spawn_ticks'[e] = spawn_ticks[e]]_vars

\* ecs.py, after a run: of two entities with the same classes, one spawned
\* before the run and one after it, the spawned query returns the second.
C21_Witness ==
    /\ impl = "ecs"
    /\ tick > 0
    /\ \E e1 \in Live, e2 \in Live :
           /\ entity_archetype[e1] = entity_archetype[e2]
           /\ entity_archetype[e1] # {}
           /\ spawn_ticks[e1] < tick
           /\ spawn_ticks[e2] = tick
           /\ query(World, entity_archetype[e1], {}, {}, TRUE) = <<e2>>

\* C22, the state part: every id issued so far is below the next id, and a
\* spawn made now returns the next id, which is neither live nor the id of
\* a despawned entity; no other call changes the next id.
C22_NextIdIsFresh ==
    /\ \A e \in Live \cup DOMAIN entity_components : e < next_id
    /\ \A components \in SpawnArgs :
           LET r == spawn(World, components) IN
           /\ r.ret = next_id
           /\ r.ret \notin Live \cup Despawned
           /\ r.w.next_id = next_id + 1
    /\ \A e \in AnyIds :
           /\ despawn(World, e).w.next_id = next_id
           /\ \A c \in Components :
                  /\ add_component(World, e, c).w.next_id = next_id
                  /\ set_component(World, e, c.type, c).w.next_id = next_id
           /\ \A t \in Types :
                  remove_component(World, e, t).w.next_id = next_id

\* C22: ids are issued in strictly increasing order: the next id never
\* decreases, a step that changes it adds one and makes the old next id
\* live, and a step that makes an id live issues the old next id.
C22_IdsStrictlyIncrease ==
    /\ []C22_NextIdIsFresh
    /\ [][/\ next_id' # next_id =>
               (next_id' = next_id + 1 /\ Live' = Live \cup {next_id})
          /\ Live' \ Live # {} => Live' \ Live = {next_id}]_vars

\* Entity 0 has been despawned and entity 1 is live.
C22_Witness ==
    /\ 0 \in Despawned
    /\ 1 \in Live
    /\ next_id = 2

\* The values of the spawned argument: pyecs.py's query has none.
SpawnedArgs == IF impl = "ecs" THEN BOOLEAN ELSE {FALSE}

\* C23: a call of query, with any with, without and changed sets and either
\* value of spawned, returns and leaves every field of the world as it was;
\* the same call made next therefore runs on the same world and returns
\* the same list.
C23_QueryIsReadOnly ==
    \A with_set \in SUBSET Types, without_set \in SUBSET Types,
       changed_set \in SUBSET Types, spawned \in SpawnedArgs :
        LET r == query_call(World, with_set, without_set, changed_set, spawned)
        IN  /\ r.err = "none"
            /\ r.w = World

\* A world with an empty archetype and two live entities in two different
\* archetypes, after a run: a query with all three filters set returns one
\* of them.
C23_Witness ==
    /\ tick > 0
    /\ Cardinality(Live) = 2
    /\ \E with_set \in SUBSET Types, without_set \in SUBSET Types,
          changed_set \in SUBSET Types :
           /\ with_set # {} /\ without_set # {} /\ changed_set # {}
           /\ Len(query_call(World, with_set, without_set, changed_set,
                              FALSE).ret) = 1

\* C24, as claimed: in ecs.py, every class a live entity holds has a change
\* tick, and it is the tick of the most recent spawn, add_component or
\* set_component that stored the class on the entity, whatever has been
\* done to other entities since.
C24_EcsChangeTickIsLastWriteTick ==
    impl = "ecs" =>
        \A e \in Live :
            \A t \in DOMAIN entity_components[e] :
                /\ t \in DOMAIN change_ticks[e]
                /\ change_ticks[e][t] = last_write[e][t]

\* C25, as claimed: in pyecs.py, at any tick, query with a non-empty changed
\* set S returns no entity that lacks a component of a class of S.
C25_PyecsChangedReturnsHoldersOnly ==
    impl = "pyecs" =>
        \A S \in (SUBSET Types) \ {{}} :
            \A with_set \in SUBSET Types, without_set \in SUBSET Types :
                LET r == query(World, with_set, without_set, S, FALSE) IN
                \A i \in 1 .. Len(r) : S \subseteq DOMAIN entity_components[r[i]]

\* C26, as claimed: in ecs.py, query with a non-empty changed set S returns
\* only entities on which every class of S was last stored during the
\* current tick.
C26_EcsChangedReturnsThisTicksWritesOnly ==
    impl = "ecs" =>
        \A S \in (SUBSET Types) \ {{}} :
            \A with_set \in SUBSET Types, without_set \in SUBSET Types :
                LET r == query(World, with_set, without_set, S, FALSE) IN
                \A i \in 1 .. Len(r) :
                    \A c \in S :
                        /\ c \in DOMAIN last_write[r[i]]
                        /\ last_write[r[i]][c] = tick

\* C27: change ticks are recorded for live entities only and, for each,
\* for classes it holds only; spawn ticks are recorded for live entities
\* only; and no recorded tick is greater than the current tick.
C27_NoStaleTicksAndNoneFromTheFuture ==
    /\ DOMAIN change_ticks \subseteq Live
    /\ \A e \in DOMAIN change_ticks :
           /\ DOMAIN change_ticks[e] \subseteq DOMAIN entity_components[e]
           /\ \A t \in DOMAIN change_ticks[e] : change_ticks[e][t] <= tick
    /\ DOMAIN spawn_ticks \subseteq Live
    /\ \A e \in DOMAIN spawn_ticks : spawn_ticks[e] <= tick

\* One entity has been despawned, the archetype of both classes has been
\* emptied, and a live entity holds one class and has a change tick for
\* that class only.
C27_Witness ==
    /\ Despawned # {}
    /\ HasArchetype(archetypes, Types)
    /\ archetypes[Types].entities = <<>>
    /\ \E e \in Live :
           /\ Cardinality(DOMAIN entity_components[e]) = 1
           /\ DOMAIN change_ticks[e] = DOMAIN entity_components[e]

\* C29, the state part: the record stored under a key has that key as its
\* component set (the table is a dict, so a key has one record).
C29_RecordMatchesItsKey ==
    \A k \in DOMAIN archetypes : archetypes[k].components = k

\* C29: every record of the archetype table carries its own key, and a key
\* once in the table stays in it: no step removes a record, though despawn
\* and migration may empty its member list.
C29_ArchetypeKeysOnlyGrow ==
    /\ []C29_RecordMatchesItsKey
    /\ [][DOMAIN archetypes \subseteq DOMAIN archetypes']_vars

\* Three archetypes exist, two of them with an empty member list, one
\* emptied by a despawn or a migration each.
C29_Witness ==
    /\ Cardinality(DOMAIN archetypes) = 3
    /\ Cardinality({k \in DOMAIN archetypes : archetypes[k].entities = <<>>}) = 2
    /\ Despawned # {}

\* C30: query() with no filter returns each live entity once and nothing
\* else, the same set as get_entities(), the entities that hold no
\* component included; and remove_component of the only class a live
\* entity holds leaves the entity live, in the archetype of the empty set,
\* and returned by query().
C30_QueryWithoutFiltersIsGetEntities ==
    /\ LET r == query(World, {}, {}, {}, FALSE) IN
           /\ {r[i] : i \in 1 .. Len(r)} = get_entities(World)
           /\ Len(r) = Cardinality(get_entities(World))
    /\ \A e \in Live, t \in Types :
           DOMAIN entity_components[e] = {t} =>
               LET w == remove_component(World, e, t).w IN
               /\ e \in get_entities(w)
               /\ w.entity_archetype[e] = {}
               /\ Contains(query(w, {}, {}, {}, FALSE), e)

\* Two live entities hold no component; one of them was in another
\* archetype before (which is now empty), so its last component was
\* removed; query() returns both.
C30_Witness ==
    /\ Live = {0, 1}
    /\ entity_components[0] = EmptyDict
    /\ entity_components[1] = EmptyDict
    /\ \E k \in DOMAIN archetypes : k # {} /\ archetypes[k].entities = <<>>
    /\ Len(query(World, {}, {}, {}, FALSE)) = 2

\* The latest run was left by an exception of a system.
Aborted == pc = 0 /\ calls # <<>> /\ calls[Len(calls)] = "raise"

\* C28, the state part, for ecs.py's Schedule: the tick counts the runs
\* started, the aborted ones included; a run left by an exception invoked
\* the systems registered before the failing one and the failing one, in
\* order, no later one, and did not swap the buffer; an event no update has
\* followed is pending in the writable generation and not returned by
\* read, and an event one update has followed is returned by read.
C28_AbortedRunKeepsTickAndPendingEvents ==
    impl = "ecs" =>
        /\ tick = runs
        /\ Aborted =>
               /\ ~Contains(calls, "update")
               /\ SystemCalls(calls) # <<>>
               /\ SystemCalls(calls)
                      = SubSeq(registered, 1, Len(SystemCalls(calls)))
        /\ \A id \in EventIds :
               /\ Age(id) = 0 =>
                      /\ InGeneration(next, id)
                      /\ \A t \in EventTypes : TimesReturned(id, t) = 0
               /\ Age(id) = 1 =>
                      /\ ~InGeneration(next, id)
                      /\ TimesReturned(id, written[id + 1].type) = 1

\* C28: the above in every state; the step in which a system raises ends
\* the run, keeps the tick, does not swap the buffer, keeps every pending
\* event pending and leaves what read returns as it was; and the buffer is
\* swapped only by the step that completes a run.
C28_SystemFailureAbortsTheRun ==
    /\ []C28_AbortedRunKeepsTickAndPendingEvents
    /\ [][(impl = "ecs" /\ pc # 0 /\ Aborted') =>
              /\ tick' = tick
              /\ updates' = updates
              /\ \A id \in EventIds : InGeneration(next, id) => InGeneration(next', id)
              /\ \A t \in EventTypes : Readable(t)' = Readable(t)]_vars
    /\ [][(impl = "ecs" /\ updates' # updates) =>
              /\ pc = Len(systems) + 1
              /\ pc' = 0
              /\ calls'[Len(calls')] = "update"]_vars

\* ecs.py, two systems registered: the first run completed, the second was
\* left by an exception of the first system.  An event written in the
\* first run is returned by read, an event written in the second is
\* pending, and the tick is 2.
C28_Witness ==
    /\ impl = "ecs"
    /\ Len(systems) = 2
    /\ runs = 2
    /\ tick = 2
    /\ updates = 1
    /\ calls = <<systems[1], "raise">>
    /\ pc = 0
    /\ \E a \in EventIds, b \in EventIds :
           /\ written[a + 1].run = 1
           /\ TimesReturned(a, written[a + 1].type) = 1
           /\ written[b + 1].run = 2
           /\ InGeneration(next, b)

\* C31: with ecs.py's Schedule, whenever a system is about to be invoked,
\* an event the host wrote between two runs, after run N and before run
\* N+1, is returned by read of its class exactly when the run in progress
\* is run N+2: not in run N+1, in run N+2, in no later run.
C31_HostEventsReadableInRunAfterNextOnly ==
    (impl = "ecs" /\ pc \in 1 .. Len(systems)) =>
        \A id \in EventIds :
            written[id + 1].by = "host" =>
                \A t \in EventTypes :
                    TimesReturned(id, t)
                        = IF t = written[id + 1].type
                             /\ written[id + 1].run = runs - 2
                          THEN 1 ELSE 0

\* The second system of the third run is about to be invoked: the event
\* the host wrote before the first run is gone, the one it wrote after the
\* first run is returned, the one it wrote after the second run is not.
C31_Witness ==
    /\ impl = "ecs"
    /\ pc = 2 /\ Len(systems) = 2
    /\ runs = 3
    /\ \E a \in EventIds, b \in EventIds, c \in EventIds :
           /\ written[a + 1].by = "host" /\ written[a + 1].run = 0
           /\ TimesReturned(a, written[a + 1].type) = 0
           /\ written[b + 1].by = "host" /\ written[b + 1].run = 1
           /\ TimesReturned(b, written[b + 1].type) = 1
           /\ written[c + 1].by = "host" /\ written[c + 1].run = 2
           /\ TimesReturned(c, written[c + 1].type) = 0

====
